---- MODULE Spec2Model ----
(***************************************************************************)
(* The CloudSim scheduler of this repository: four variants of             *)
(* Scheduler.cpp (least-loaded with an eager VM pool, consolidation-       *)
(* efficiency, best-slack, best-slack without the CPU check), driven by    *)
(* the simulator's events.  The simulator itself (machines, VMs, tasks)    *)
(* is not part of the repository; its side is modelled by what the         *)
(* scheduler's calls are documented to do.                                 *)
(***************************************************************************)
EXTENDS Integers, Sequences, FiniteSets, TLC

VARIABLES
    variant,          \* which Scheduler.cpp is linked in
    phase,            \* "boot", "run", "down", "crashed"
    machineInfo,      \* simulator: Machine_GetInfo, by machine id 0..total-1
    pendingState,     \* simulator: requested, not yet completed s-state per machine
    vmInfo,           \* simulator: VM_GetInfo, VM id v is vmInfo[v + 1]
    taskInfo,         \* simulator: the tasks generated so far, task id t is taskInfo[t + 1]
    vms,              \* Scheduler::vms
    machines,         \* Scheduler::machines
    active_machines,  \* static unsigned active_machines
    migrating,        \* static bool migrating
    lastEvt,          \* the event handled last, with the calls it made
    faulted           \* some handler has run into undefined behaviour

vars == <<variant, phase, machineInfo, pendingState, vmInfo, taskInfo, vms,
          machines, active_machines, migrating, lastEvt, faulted>>

-----------------------------------------------------------------------------
(* Bounds of the model *)

MaxMachines == 2
MaxTasks == 2
\* tasks generated in the longer run on the fleet LongFleet
MaxLongTasks == 4

-----------------------------------------------------------------------------
(* Program constants *)

DefaultActiveMachines == 16
ArmFirstIndex == 24
\* UINT_MAX is 4294967295; TLC's integers end at 2147483647, which no
\* active_tasks count of the model comes near either.
UINT_MAX == 2147483647
InvalidVM == -1
BestSlackInit == -1
BestScoreInit == -1000000

Variants == {"LeastLoaded", "ConsolidationEfficiency", "RelaxedBestSlack", "BestSlack"}
OnDemandVariants == Variants \ {"LeastLoaded"}

-----------------------------------------------------------------------------
(* Inputs: machine classes, fleets and task classes *)

MachineClass(cpu, cores, mem, gpu) ==
    [cpu |-> cpu, num_cpus |-> cores, memory_size |-> mem, gpus |-> gpu]

\* Small machines; core counts and memory sizes are powers of two, so that
\* the utilisation quotients of the code's doubles are exact.
SmallClasses ==
    { MachineClass("X86", 1, 2, FALSE),
      MachineClass("X86", 2, 4, TRUE),
      MachineClass("ARM", 1, 2, FALSE),
      MachineClass("X86", 0, 2, FALSE) }

Boot(class, s) ==
    [cpu |-> class.cpu, num_cpus |-> class.num_cpus,
     memory_size |-> class.memory_size, memory_used |-> 0,
     gpus |-> class.gpus, s_state |-> s, active_tasks |-> 0]

RECURSIVE Repeat(_, _)
Repeat(x, n) == IF n = 0 THEN <<>> ELSE Append(Repeat(x, n - 1), x)

\* The fleet of the repository's input file: 8 X86, 4 POWER with GPUs, 6 ARM,
\* all running; cores and memory are scaled down in proportion (8:16:8 cores,
\* 32768:65536:16384 MB) to keep the score products within TLC's integers.
ConfigFleet ==
    Repeat(Boot(MachineClass("X86", 2, 4, FALSE), "S0"), 8)
    \o Repeat(Boot(MachineClass("POWER", 4, 8, TRUE), "S0"), 4)
    \o Repeat(Boot(MachineClass("ARM", 2, 2, FALSE), "S0"), 6)

\* A fleet with machines at and beyond index 24.
LargeFleet ==
    Repeat(Boot(MachineClass("X86", 2, 4, FALSE), "S0"), 24)
    \o Repeat(Boot(MachineClass("ARM", 2, 2, FALSE), "S0"), 2)

\* Every small class running, and one machine that is switched off at the start.
SmallMachines ==
    { Boot(c, "S0") : c \in SmallClasses }
    \cup { Boot(MachineClass("X86", 1, 2, FALSE), "S5") }

RECURSIVE SeqsUpTo(_, _)
SeqsUpTo(S, n) ==
    IF n = 0 THEN { <<>> }
    ELSE LET shorter == SeqsUpTo(S, n - 1)
         IN  shorter \cup { Append(q, x) : q \in shorter, x \in S }

\* Two running machines that differ in the GPU only, in both orders
TwinFleets ==
    LET plain == Boot(MachineClass("X86", 1, 2, FALSE), "S0")
        withGpu == Boot(MachineClass("X86", 1, 2, TRUE), "S0")
    IN  { <<plain, withGpu>>, <<withGpu, plain>> }

Fleets ==
    SeqsUpTo(SmallMachines, MaxMachines) \cup {ConfigFleet, LargeFleet}
        \cup TwinFleets

TaskClass(cpu, vm, gpu, mem, sla) ==
    [cpu |-> cpu, vm_type |-> vm, gpu |-> gpu, mem |-> mem, sla |-> sla]

TaskClasses ==
    { TaskClass("X86", "LINUX", FALSE, 1, "SLA2"),
      TaskClass("X86", "LINUX", TRUE, 2, "SLA0"),
      TaskClass("ARM", "LINUX_RT", FALSE, 1, "SLA0"),
      TaskClass("POWER", "LINUX", TRUE, 2, "SLA1"),
      TaskClass("X86", "LINUX", FALSE, 48, "SLA3") }

-----------------------------------------------------------------------------
(* Helpers *)

Min(a, b) == IF a < b THEN a ELSE b

\* Exact fractions for the code's doubles: [n, d] with d > 0.
Frac(n, d) == [n |-> n, d |-> d]
FracGT(x, y) == x.n * y.d > y.n * x.d

\* Machine ids and VM ids are 0-based; sequences are 1-based.
MachineIds == DOMAIN machineInfo
ValidVM(info, v) == v >= 0 /\ v < Len(info)
VMRec(info, v) == info[v + 1]

NoRequest == [kind |-> "none", task |-> 0, best |-> -1, host |-> -1,
              fallback |-> FALSE, placed |-> FALSE,
              created |-> FALSE, newvm |-> 0, attached |-> FALSE,
              pushed |-> FALSE, added |-> FALSE, addvm |-> 0,
              priority |-> "NONE", fault |-> FALSE,
              arg |-> -1, migrate |-> FALSE,
              newtype |-> "NONE", newcpu |-> "NONE",
              setState |-> {}, shutdowns |-> <<>>, setPriority |-> FALSE,
              req |-> [cpu |-> "NONE", vm_type |-> "NONE", gpu |-> FALSE,
                       mem |-> 0, sla |-> "NONE"],
              pre |-> <<>>, prePool |-> <<>>, preVm |-> <<>>]

-----------------------------------------------------------------------------
(* The simulator's read interface *)

\* VM_GetInfo: the record of a VM the simulator created; the failure identity
\* names no VM and matches no machine, type or CPU.
VM_GetInfo(vinfo, v) ==
    IF ValidVM(vinfo, v) THEN VMRec(vinfo, v)
    ELSE [vm_type |-> "NONE", cpu |-> "NONE", machine_id |-> -1,
          active_tasks |-> {}, attaches |-> 0, shutdowns |-> 0]

-----------------------------------------------------------------------------
(* PriorityFromSLA, the same in all four variants *)

\* A mapping that forgets the middle class (C24 must reject it)
PriorityFromSLANoMid(s) ==
    CASE s = "SLA0" -> "HIGH_PRIORITY"
      [] OTHER -> "LOW_PRIORITY"

PriorityFromSLA(s) ==
    CASE s = "SLA0" -> "HIGH_PRIORITY"
      [] s = "SLA1" -> "MID_PRIORITY"
      [] OTHER -> "LOW_PRIORITY"

-----------------------------------------------------------------------------
(* The candidate filters of the four NewTask loops *)

FeasibleLeastLoaded(mi, req) ==
    /\ ~(mi.s_state # "S0")
    /\ ~(mi.cpu # req.cpu)
    /\ ~(mi.memory_size < mi.memory_used + req.mem)

\* A filter that leaves the CPU test out, as the relaxed variant does (C27
\* must reject it)
FeasibleEfficiencyAnyCpu(mi, req) ==
    /\ ~(mi.s_state # "S0")
    /\ ~(req.gpu /\ ~mi.gpus)
    /\ ~(mi.memory_used + req.mem > mi.memory_size)

FeasibleEfficiency(mi, req) ==
    /\ ~(mi.s_state # "S0")
    /\ ~(mi.cpu # req.cpu)
    /\ ~(req.gpu /\ ~mi.gpus)
    /\ ~(mi.memory_used + req.mem > mi.memory_size)

FeasibleBestSlack(mi, req) ==
    /\ ~(mi.s_state # "S0")
    /\ ~(mi.cpu # req.cpu)
    /\ ~(mi.memory_used + req.mem > mi.memory_size)

FeasibleRelaxed(mi, req) ==
    /\ ~(mi.s_state # "S0")
    /\ ~(mi.memory_used + req.mem > mi.memory_size)

-----------------------------------------------------------------------------
(* The scores, as exact fractions over the denominator 20 * cores * memory *)

\* u of the best-slack variant: active_tasks / num_cpus, capped at 1.0
CpuUtilCapped(mi) ==
    IF mi.num_cpus > 0
    THEN Frac(Min(mi.active_tasks, mi.num_cpus), mi.num_cpus)
    ELSE Frac(0, 1)

\* u of the relaxed variant: active_tasks / num_cpus, not capped
CpuUtilUncapped(mi) ==
    IF mi.num_cpus > 0 THEN Frac(mi.active_tasks, mi.num_cpus) ELSE Frac(0, 1)

\* 1.0 - (u + v), plus 0.05 when the task wants a GPU and the machine has one
SlackOf(u, mi, req) ==
    Frac(20 * u.d * mi.memory_size
           - 20 * (u.n * mi.memory_size + (mi.memory_used + req.mem) * u.d)
           + (IF req.gpu /\ mi.gpus THEN u.d * mi.memory_size ELSE 0),
         20 * u.d * mi.memory_size)

\* A slack without the GPU bonus (C23 must reject it)
SlackWithoutBonus(mi, req) ==
    SlackOf(CpuUtilCapped(mi), mi, [req EXCEPT !.gpu = FALSE])

SlackBestSlack(mi, req) == SlackOf(CpuUtilCapped(mi), mi, req)

SlackRelaxed(mi, req) == SlackOf(CpuUtilUncapped(mi), mi, req)

\* The pooled VMs on machine m that match the task: one += 0.1 for each
MatchingVMs(pool, vinfo, m, req) ==
    Cardinality({ i \in 1..Len(pool) :
        LET vi == VM_GetInfo(vinfo, pool[i])
        IN  vi.machine_id = m /\ vi.vm_type = req.vm_type /\ vi.cpu = req.cpu })

\* 1.0 - (0.5 * cpu_util + 0.5 * mem_util), + 0.1 per matching VM, + 0.1 for a
\* wanted GPU
Efficiency(mi, req, matching) ==
    LET u == CpuUtilCapped(mi)
    IN  Frac(20 * u.d * mi.memory_size
               - 10 * u.n * mi.memory_size
               - 10 * (mi.memory_used + req.mem) * u.d
               + 2 * u.d * mi.memory_size
                   * (matching + (IF req.gpu /\ mi.gpus THEN 1 ELSE 0)),
             20 * u.d * mi.memory_size)

-----------------------------------------------------------------------------
(* The selection loops: index i runs over machines[0..size-1]; the result is
   best_idx / best_i, -1 when no candidate was taken *)

RECURSIVE ScanLeastLoaded(_, _, _, _, _, _)
ScanLeastLoaded(i, best_idx, best_load, mach, info, req) ==
    IF i >= Len(mach) THEN best_idx
    ELSE LET mi == info[mach[i + 1]]
         IN  IF FeasibleLeastLoaded(mi, req) /\ mi.active_tasks < best_load
             THEN ScanLeastLoaded(i + 1, i, mi.active_tasks, mach, info, req)
             ELSE ScanLeastLoaded(i + 1, best_idx, best_load, mach, info, req)

RECURSIVE ScanBestSlack(_, _, _, _, _, _)
ScanBestSlack(i, best_i, best_slack, mach, info, req) ==
    IF i >= Len(mach) THEN best_i
    ELSE LET mi == info[mach[i + 1]]
         IN  IF FeasibleBestSlack(mi, req)
                  /\ FracGT(SlackBestSlack(mi, req), best_slack)
             THEN ScanBestSlack(i + 1, i, SlackBestSlack(mi, req), mach, info, req)
             ELSE ScanBestSlack(i + 1, best_i, best_slack, mach, info, req)

RECURSIVE ScanRelaxed(_, _, _, _, _, _)
ScanRelaxed(i, best_i, best_slack, mach, info, req) ==
    IF i >= Len(mach) THEN best_i
    ELSE LET mi == info[mach[i + 1]]
         IN  IF FeasibleRelaxed(mi, req)
                  /\ FracGT(SlackRelaxed(mi, req), best_slack)
             THEN ScanRelaxed(i + 1, i, SlackRelaxed(mi, req), mach, info, req)
             ELSE ScanRelaxed(i + 1, best_i, best_slack, mach, info, req)

RECURSIVE ScanEfficiency(_, _, _, _, _, _, _, _)
ScanEfficiency(i, best_i, best_score, mach, info, pool, vinfo, req) ==
    IF i >= Len(mach) THEN best_i
    ELSE LET mi == info[mach[i + 1]]
             e == Efficiency(mi, req, MatchingVMs(pool, vinfo, mach[i + 1], req))
         IN  IF FeasibleEfficiency(mi, req) /\ FracGT(e, best_score)
             THEN ScanEfficiency(i + 1, i, e, mach, info, pool, vinfo, req)
             ELSE ScanEfficiency(i + 1, best_i, best_score, mach, info, pool, vinfo, req)

\* The reuse loop: the first pool position (1-based) whose VM is on host with
\* the task's type and CPU, 0 when there is none
RECURSIVE FindReusable(_, _, _, _, _)
FindReusable(i, pool, vinfo, host, req) ==
    IF i > Len(pool) THEN 0
    ELSE LET vi == VM_GetInfo(vinfo, pool[i])
         IN  IF vi.machine_id = host /\ vi.vm_type = req.vm_type /\ vi.cpu = req.cpu
             THEN i
             ELSE FindReusable(i + 1, pool, vinfo, host, req)

-----------------------------------------------------------------------------
(* Scheduler::NewTask: the calls one arrival makes, as a record.
   best: best_idx / best_i; host: the chosen machine id, -1 for none;
   created: VM_Create was called, newvm is what it returned;
   attached / pushed: VM_Attach(newvm, host) / vms.push_back(newvm);
   added: VM_AddTask(addvm, task, priority) was called;
   fault: the handler did not return (division by zero, out-of-range read). *)

Calls(task_id, req) ==
    [NoRequest EXCEPT !.kind = "NewTask", !.task = task_id, !.req = req,
                      !.priority = PriorityFromSLA(req.sla)]

\* A creation block that forgets VM_Attach: the new VM is pooled and given the
\* task without ever being attached (C12 must reject it)
ReuseOrCreateUnattached(best_i, mach, info, pool, vinfo, task_id, req, vm_id) ==
    IF best_i >= 0
    THEN LET host == mach[best_i + 1]
             r == FindReusable(1, pool, vinfo, host, req)
         IN  IF r > 0
             THEN [Calls(task_id, req) EXCEPT !.best = best_i, !.host = host,
                       !.added = TRUE, !.addvm = pool[r]]
             ELSE [Calls(task_id, req) EXCEPT !.best = best_i, !.host = host,
                       !.created = TRUE, !.newvm = vm_id,
                       !.newtype = req.vm_type, !.newcpu = info[host].cpu,
                       !.pushed = TRUE, !.added = TRUE, !.addvm = vm_id]
    ELSE Calls(task_id, req)

\* if (best_i >= 0) { reuse, else create unchecked } of the two best-slack
\* variants; vm_id is what VM_Create returns when it is called
ReuseOrCreate(best_i, mach, info, pool, vinfo, task_id, req, vm_id) ==
    IF best_i >= 0
    THEN LET host == mach[best_i + 1]
             r == FindReusable(1, pool, vinfo, host, req)
         IN  IF r > 0
             THEN [Calls(task_id, req) EXCEPT !.best = best_i, !.host = host,
                       !.added = TRUE, !.addvm = pool[r]]
             ELSE [Calls(task_id, req) EXCEPT !.best = best_i, !.host = host,
                       !.created = TRUE, !.newvm = vm_id,
                       !.newtype = req.vm_type, !.newcpu = info[host].cpu,
                       !.attached = TRUE,
                       !.pushed = TRUE, !.added = TRUE, !.addvm = vm_id]
    ELSE Calls(task_id, req)

\* the same block of the consolidation-efficiency variant: the CPU re-check,
\* and the return when VM_Create gives (VMId_t)-1
ReuseOrCreateChecked(best_i, mach, info, pool, vinfo, task_id, req, vm_id) ==
    IF best_i >= 0
    THEN LET host == mach[best_i + 1]
             r == FindReusable(1, pool, vinfo, host, req)
         IN  IF info[host].cpu # req.cpu
             THEN [Calls(task_id, req) EXCEPT !.best = best_i, !.host = host]
             ELSE IF r > 0
             THEN [Calls(task_id, req) EXCEPT !.best = best_i, !.host = host,
                       !.added = TRUE, !.addvm = pool[r]]
             ELSE IF vm_id = InvalidVM
             THEN [Calls(task_id, req) EXCEPT !.best = best_i, !.host = host,
                       !.created = TRUE, !.newvm = vm_id,
                       !.newtype = req.vm_type, !.newcpu = info[host].cpu]
             ELSE [Calls(task_id, req) EXCEPT !.best = best_i, !.host = host,
                       !.created = TRUE, !.newvm = vm_id,
                       !.newtype = req.vm_type, !.newcpu = info[host].cpu,
                       !.attached = TRUE,
                       !.pushed = TRUE, !.added = TRUE, !.addvm = vm_id]
    ELSE Calls(task_id, req)

NewTaskBestSlack(mach, info, pool, vinfo, task_id, req, vm_id) ==
    ReuseOrCreate(ScanBestSlack(0, -1, Frac(BestSlackInit, 1), mach, info, req),
                  mach, info, pool, vinfo, task_id, req, vm_id)

NewTaskRelaxed(mach, info, pool, vinfo, task_id, req, vm_id) ==
    ReuseOrCreate(ScanRelaxed(0, -1, Frac(BestSlackInit, 1), mach, info, req),
                  mach, info, pool, vinfo, task_id, req, vm_id)

NewTaskEfficiency(mach, info, pool, vinfo, task_id, req, vm_id) ==
    ReuseOrCreateChecked(
        ScanEfficiency(0, -1, Frac(BestScoreInit, 1), mach, info, pool, vinfo, req),
        mach, info, pool, vinfo, task_id, req, vm_id)

\* The index of the fallback placement: task_id % active_machines
FallbackIndex(task_id, am) == task_id % am

\* The least-loaded variant: vms[best_idx], or vms[task_id % active_machines];
\* with active_machines = 0 the modulo divides by zero and the handler faults
NewTaskLeastLoaded(mach, info, pool, am, task_id, req) ==
    LET best_idx == ScanLeastLoaded(0, -1, UINT_MAX, mach, info, req)
    IN  IF best_idx >= 0
        THEN [Calls(task_id, req) EXCEPT !.best = best_idx,
                  !.host = mach[best_idx + 1],
                  !.added = TRUE, !.addvm = pool[best_idx + 1]]
        ELSE IF am = 0 \/ FallbackIndex(task_id, am) >= Len(pool)
        THEN [Calls(task_id, req) EXCEPT !.fallback = TRUE, !.fault = TRUE]
        ELSE [Calls(task_id, req) EXCEPT !.fallback = TRUE, !.added = TRUE,
                  !.addvm = pool[FallbackIndex(task_id, am) + 1]]

NewTask(v, mach, info, pool, vinfo, am, task_id, req, vm_id) ==
    CASE v = "LeastLoaded" -> NewTaskLeastLoaded(mach, info, pool, am, task_id, req)
      [] v = "ConsolidationEfficiency" ->
             NewTaskEfficiency(mach, info, pool, vinfo, task_id, req, vm_id)
      [] v = "RelaxedBestSlack" ->
             NewTaskRelaxed(mach, info, pool, vinfo, task_id, req, vm_id)
      [] v = "BestSlack" ->
             NewTaskBestSlack(mach, info, pool, vinfo, task_id, req, vm_id)

-----------------------------------------------------------------------------
(* The simulator's write interface: what the scheduler's calls do to the
   simulator's records *)

\* VM_Create + VM_Attach: a new VM record, attached when VM_Attach was called
VM_Created(vinfo, out) ==
    IF out.created /\ out.newvm # InvalidVM
    THEN Append(vinfo, [vm_type |-> out.newtype, cpu |-> out.newcpu,
                        machine_id |-> IF out.attached THEN out.host ELSE -1,
                        active_tasks |-> {},
                        attaches |-> IF out.attached THEN 1 ELSE 0,
                        shutdowns |-> 0])
    ELSE vinfo

\* VM_AddTask reaches a VM the simulator knows and that sits on a machine
Lands(vinfo, info, out) ==
    /\ out.added
    /\ ValidVM(vinfo, out.addvm)
    /\ VMRec(vinfo, out.addvm).machine_id \in DOMAIN info

\* VM_AddTask: the task runs on the VM; its memory and its core count against
\* the VM's machine
VM_AddTask(info, m, mem) ==
    [info EXCEPT ![m].memory_used = @ + mem, ![m].active_tasks = @ + 1]

\* the task's completion releases both
TaskReleased(info, m, mem) ==
    [info EXCEPT ![m].memory_used = @ - mem, ![m].active_tasks = @ - 1]

\* The event record: the handler's calls and the state it started from
Evt(out) ==
    [out EXCEPT !.pre = machineInfo, !.prePool = vms, !.preVm = vmInfo]

NoOp(kind) == Evt([NoRequest EXCEPT !.kind = kind])

-----------------------------------------------------------------------------
(* Scheduler::Init *)

Range0(n) == [i \in 1..n |-> i - 1]

\* least-loaded: one LINUX/X86 VM per active machine, attached index by index;
\* machines from index 24 on are switched off; the closing SimOutput reads
\* vms[0] and vms[1]
InitLeastLoaded(crash) ==
    LET total == Cardinality(MachineIds)
        am == Min(active_machines, total)
        off == { m \in MachineIds : m >= ArmFirstIndex }
    IN  /\ active_machines' = am
        /\ vms' = Range0(am)
        /\ machines' = Range0(am)
        /\ vmInfo' = [i \in 1..am |->
                        [vm_type |-> "LINUX", cpu |-> "X86", machine_id |-> i - 1,
                         active_tasks |-> {}, attaches |-> 1, shutdowns |-> 0]]
        /\ pendingState' = [m \in MachineIds |->
                              IF m \in off THEN "S5" ELSE pendingState[m]]
        /\ phase' = IF am < 2 /\ crash THEN "crashed" ELSE "run"
        /\ lastEvt' = Evt([NoRequest EXCEPT !.kind = "Init",
                              !.setState = { <<m, "S5">> : m \in off },
                              !.fault = (am < 2)])

\* the three on-demand variants: every machine recorded, the ones not running
\* asked to run, no VM created
InitOnDemand ==
    LET total == Cardinality(MachineIds)
        asleep == { m \in MachineIds : machineInfo[m].s_state # "S0" }
    IN  /\ active_machines' = total
        /\ vms' = <<>>
        /\ machines' = Range0(total)
        /\ vmInfo' = vmInfo
        /\ pendingState' = [m \in MachineIds |->
                              IF m \in asleep THEN "S0" ELSE pendingState[m]]
        /\ phase' = "run"
        /\ lastEvt' = Evt([NoRequest EXCEPT !.kind = "Init",
                              !.setState = { <<m, "S0">> : m \in asleep }])

InitScheduler ==
    /\ phase = "boot"
    /\ IF variant = "LeastLoaded"
       THEN \E crash \in BOOLEAN : InitLeastLoaded(crash)
       ELSE InitOnDemand
    /\ faulted' = lastEvt'.fault
    /\ UNCHANGED <<variant, machineInfo, taskInfo, migrating>>

-----------------------------------------------------------------------------
(* HandleNewTask -> Scheduler::NewTask *)

\* one arrival, as long as fewer than limit tasks have been generated
HandleNewTaskUpTo(limit) ==
    /\ phase = "run"
    /\ Len(taskInfo) < limit
    /\ \E req \in TaskClasses, accepted \in BOOLEAN :
        LET task_id == Len(taskInfo)
            vm_id == IF accepted THEN Len(vmInfo) ELSE InvalidVM
            out == NewTask(variant, machines, machineInfo, vms, vmInfo,
                           active_machines, task_id, req, vm_id)
            vinfo == VM_Created(vmInfo, out)
            lands == Lands(vinfo, machineInfo, out)
            m == VM_GetInfo(vinfo, out.addvm).machine_id
        IN  /\ vms' = IF out.pushed THEN Append(vms, out.newvm) ELSE vms
            /\ vmInfo' = IF lands
                         THEN [vinfo EXCEPT ![out.addvm + 1].active_tasks =
                                                @ \cup {task_id}]
                         ELSE vinfo
            /\ machineInfo' = IF lands THEN VM_AddTask(machineInfo, m, req.mem)
                              ELSE machineInfo
            /\ taskInfo' = Append(taskInfo,
                    [req |-> req,
                     status |-> IF lands THEN "placed"
                                ELSE IF out.added THEN "lost" ELSE "unallocated",
                     vm |-> out.addvm,
                     machine |-> IF lands THEN m ELSE -1,
                     priority |-> IF out.added THEN out.priority ELSE "NONE",
                     adds |-> IF out.added THEN 1 ELSE 0])
            /\ phase' = IF out.fault THEN "crashed" ELSE phase
            /\ lastEvt' = Evt([out EXCEPT !.placed = lands])
            /\ faulted' = (faulted \/ out.fault)
    /\ UNCHANGED <<variant, pendingState, machines, active_machines, migrating>>

HandleNewTask == HandleNewTaskUpTo(MaxTasks)

\* the arrivals of the longer run
HandleNewTaskLong == HandleNewTaskUpTo(MaxLongTasks)

-----------------------------------------------------------------------------
(* The other events *)

\* A completion handler that switches the task's machine off as soon as it has
\* no task left (C18 must reject it)
HandleTaskCompletionPowersOff ==
    /\ phase = "run"
    /\ \E t \in 1..Len(taskInfo) :
        /\ taskInfo[t].status = "placed"
        /\ taskInfo' = [taskInfo EXCEPT ![t].status = "done"]
        /\ machineInfo' = TaskReleased(machineInfo, taskInfo[t].machine,
                                       taskInfo[t].req.mem)
        /\ vmInfo' = [vmInfo EXCEPT ![taskInfo[t].vm + 1].active_tasks =
                                       @ \ {t - 1}]
        /\ pendingState' =
              IF machineInfo'[taskInfo[t].machine].active_tasks = 0
              THEN [pendingState EXCEPT ![taskInfo[t].machine] = "S5"]
              ELSE pendingState
        /\ lastEvt' = [NoOp("TaskComplete") EXCEPT !.task = t - 1,
                          !.setState =
                              IF machineInfo'[taskInfo[t].machine].active_tasks = 0
                              THEN { <<taskInfo[t].machine, "S5">> } ELSE {}]
    /\ UNCHANGED <<variant, phase, vms, machines,
                   active_machines, migrating, faulted>>

\* HandleTaskCompletion -> Scheduler::TaskComplete: the simulator has finished
\* a running task; the handler only logs
HandleTaskCompletion ==
    /\ phase = "run"
    /\ \E t \in 1..Len(taskInfo) :
        /\ taskInfo[t].status = "placed"
        /\ taskInfo' = [taskInfo EXCEPT ![t].status = "done"]
        /\ machineInfo' = TaskReleased(machineInfo, taskInfo[t].machine,
                                       taskInfo[t].req.mem)
        /\ vmInfo' = [vmInfo EXCEPT ![taskInfo[t].vm + 1].active_tasks =
                                       @ \ {t - 1}]
        /\ lastEvt' = [NoOp("TaskComplete") EXCEPT !.task = t - 1]
    /\ UNCHANGED <<variant, phase, pendingState, vms, machines,
                   active_machines, migrating, faulted>>

\* A migration handler that flips the flag instead of clearing it (C17 must
\* reject it)
MigrationDoneToggles ==
    /\ phase = "run"
    /\ \E vm_id \in {InvalidVM, 0, Len(vmInfo)} :
        /\ migrating' = ~migrating
        /\ lastEvt' = [NoOp("MigrationDone") EXCEPT !.arg = vm_id]
    /\ UNCHANGED <<variant, phase, machineInfo, pendingState, vmInfo, taskInfo,
                   vms, machines, active_machines, faulted>>

\* MigrationDone -> Scheduler::MigrationComplete, for any VM id
MigrationDone ==
    /\ phase = "run"
    /\ \E vm_id \in {InvalidVM, 0, Len(vmInfo)} :
        /\ migrating' = FALSE
        /\ lastEvt' = [NoOp("MigrationDone") EXCEPT !.arg = vm_id]
    /\ UNCHANGED <<variant, phase, machineInfo, pendingState, vmInfo, taskInfo,
                   vms, machines, active_machines, faulted>>

\* A periodic check that retries a task left unallocated, giving it to the
\* first pooled VM (C14 must reject it)
SchedulerCheckRetry ==
    /\ phase = "run"
    /\ \E t \in 1..Len(taskInfo) :
        /\ taskInfo[t].status = "unallocated"
        /\ taskInfo' = [taskInfo EXCEPT ![t].status = "lost", ![t].adds = @ + 1,
                                        ![t].priority = PriorityFromSLA(taskInfo[t].req.sla)]
        /\ lastEvt' = [NoOp("PeriodicCheck") EXCEPT !.task = t - 1, !.added = TRUE]
    /\ UNCHANGED <<variant, phase, machineInfo, pendingState, vmInfo,
                   vms, machines, active_machines, migrating, faulted>>

\* SchedulerCheck -> Scheduler::PeriodicCheck
SchedulerCheck ==
    /\ phase = "run"
    /\ lastEvt' = NoOp("PeriodicCheck")
    /\ UNCHANGED <<variant, phase, machineInfo, pendingState, vmInfo, taskInfo,
                   vms, machines, active_machines, migrating, faulted>>

\* MemoryWarning: logs only, whatever machine id it is given (the first
\* machine, or an id past the fleet)
MemoryWarning ==
    /\ phase = "run"
    /\ \E machine_id \in {0, Cardinality(MachineIds)} :
        /\ lastEvt' = [NoOp("MemoryWarning") EXCEPT !.arg = machine_id]
    /\ UNCHANGED <<variant, phase, machineInfo, pendingState, vmInfo, taskInfo,
                   vms, machines, active_machines, migrating, faulted>>

\* A late-task handler that starts a migration of the task's VM (C19 must
\* reject it)
SLAWarningMigrates ==
    /\ phase = "run"
    /\ \E t \in 1..Len(taskInfo) :
        /\ taskInfo[t].status # "done"
        /\ taskInfo' = taskInfo
        /\ migrating' = (taskInfo[t].status = "placed")
        /\ lastEvt' = [NoOp("SLAWarning") EXCEPT !.task = t - 1,
                          !.arg = taskInfo[t].vm,
                          !.migrate = (taskInfo[t].status = "placed")]
    /\ UNCHANGED <<variant, phase, machineInfo, pendingState, vmInfo,
                   vms, machines, active_machines, faulted>>

\* SLAWarning, for any task that has not completed: the least-loaded variant
\* raises the task's priority, the others do nothing
SLAWarning ==
    /\ phase = "run"
    /\ \E t \in 1..Len(taskInfo) :
        /\ taskInfo[t].status # "done"
        /\ IF variant = "LeastLoaded"
           THEN /\ taskInfo' = [taskInfo EXCEPT ![t].priority = "HIGH_PRIORITY"]
                /\ lastEvt' = [NoOp("SLAWarning") EXCEPT !.task = t - 1,
                                                        !.setPriority = TRUE]
           ELSE /\ taskInfo' = taskInfo
                /\ lastEvt' = [NoOp("SLAWarning") EXCEPT !.task = t - 1]
    /\ UNCHANGED <<variant, phase, machineInfo, pendingState, vmInfo,
                   vms, machines, active_machines, migrating, faulted>>

\* StateChangeComplete: the simulator has carried out a Machine_SetState
\* request; the handler does nothing
StateChangeComplete ==
    /\ phase = "run"
    /\ \E machine_id \in MachineIds :
        /\ pendingState[machine_id] # "none"
        /\ machineInfo' = [machineInfo EXCEPT
                              ![machine_id].s_state = pendingState[machine_id]]
        /\ pendingState' = [pendingState EXCEPT ![machine_id] = "none"]
        /\ lastEvt' = [NoOp("StateChangeComplete") EXCEPT !.arg = machine_id]
    /\ UNCHANGED <<variant, phase, vmInfo, taskInfo, vms, machines,
                   active_machines, migrating, faulted>>

\* SimulationComplete -> Scheduler::Shutdown: VM_Shutdown for every entry of vms
VM_Shutdown(vinfo, pool) ==
    [i \in 1..Len(vinfo) |->
        [vinfo[i] EXCEPT !.shutdowns =
            @ + Cardinality({ k \in 1..Len(pool) : pool[k] = i - 1 })]]

SimulationComplete ==
    /\ phase = "run"
    /\ vmInfo' = VM_Shutdown(vmInfo, vms)
    /\ phase' = "down"
    /\ lastEvt' = Evt([NoRequest EXCEPT !.kind = "Shutdown", !.shutdowns = vms])
    /\ UNCHANGED <<variant, machineInfo, pendingState, taskInfo, vms, machines,
                   active_machines, migrating, faulted>>

-----------------------------------------------------------------------------
(* The specification *)

Init ==
    /\ variant \in Variants
    /\ phase = "boot"
    /\ \E fleet \in Fleets :
        /\ machineInfo = [m \in 0..(Len(fleet) - 1) |-> fleet[m + 1]]
        /\ pendingState = [m \in 0..(Len(fleet) - 1) |-> "none"]
    /\ vmInfo = <<>>
    /\ taskInfo = <<>>
    /\ vms = <<>>
    /\ machines = <<>>
    /\ active_machines = DefaultActiveMachines
    /\ migrating = FALSE
    /\ lastEvt = [NoRequest EXCEPT !.pre = machineInfo]
    /\ faulted = FALSE

Next ==
    \/ InitScheduler
    \/ HandleNewTask
    \/ HandleTaskCompletion
    \/ MigrationDone
    \/ SchedulerCheck
    \/ MemoryWarning
    \/ SLAWarning
    \/ StateChangeComplete
    \/ SimulationComplete

Spec == Init /\ [][Next]_vars

\* A longer run of the consolidation-efficiency variant on two identical
\* running machines (X86, 1 core, memory 8, GPU): arrivals and completions
\* only, so that a machine can hold more tasks than it has cores.
LongFleet == Repeat(Boot(MachineClass("X86", 1, 8, TRUE), "S0"), 2)

InitLong ==
    /\ variant = "ConsolidationEfficiency"
    /\ phase = "boot"
    /\ machineInfo = [m \in 0..(Len(LongFleet) - 1) |-> LongFleet[m + 1]]
    /\ pendingState = [m \in 0..(Len(LongFleet) - 1) |-> "none"]
    /\ vmInfo = <<>>
    /\ taskInfo = <<>>
    /\ vms = <<>>
    /\ machines = <<>>
    /\ active_machines = DefaultActiveMachines
    /\ migrating = FALSE
    /\ lastEvt = [NoRequest EXCEPT !.pre = machineInfo]
    /\ faulted = FALSE

NextLong ==
    \/ InitScheduler
    \/ HandleNewTaskLong
    \/ HandleTaskCompletion

SpecLong == InitLong /\ [][NextLong]_vars

-----------------------------------------------------------------------------
(* The claims *)

\* The tasks that were committed to a VM on a machine (running or finished)
Committed == { t \in 1..Len(taskInfo) : taskInfo[t].status \in {"placed", "done"} }

\* The feasibility predicate of the design: running, same architecture, a GPU
\* when one is required, and room for the task's memory
DesignFeasible(mi, req) ==
    /\ mi.s_state = "S0"
    /\ mi.cpu = req.cpu
    /\ (req.gpu => mi.gpus)
    /\ mi.memory_used + req.mem <= mi.memory_size

\* The claims are read on runs in which no handler has run into undefined
\* behaviour: what follows an out-of-range read is not the program's doing.
Arrival == lastEvt.kind = "NewTask" /\ ~faulted

\* C1: every machine's memory_used stays within its memory_size, in every
\* state reachable by Init, task arrivals and task completions.
C1_MemoryCapacity ==
    ~faulted =>
        \A m \in MachineIds :
            machineInfo[m].memory_used <= machineInfo[m].memory_size

\* C2: an arrival whose memory demand exceeds the remaining memory of every
\* machine ends with no VM_AddTask issued and no VM created.
C2_NoSilentOvercommit ==
    (Arrival /\ \A m \in DOMAIN lastEvt.pre :
                   lastEvt.pre[m].memory_used + lastEvt.req.mem
                       > lastEvt.pre[m].memory_size)
        => (~lastEvt.added /\ ~lastEvt.created)

\* C3: no task is ever committed to a VM whose host machine has another CPU
\* architecture than the task requires.
C3_StrictArchitecture ==
    ~faulted =>
        \A t \in Committed :
            machineInfo[taskInfo[t].machine].cpu = taskInfo[t].req.cpu

\* C4: no task that requires a GPU is ever committed to a VM on a machine
\* without one.
C4_GpuFeasibility ==
    ~faulted =>
        \A t \in Committed :
            taskInfo[t].req.gpu => machineInfo[taskInfo[t].machine].gpus

\* C5: a task is committed only to a VM whose host machine is in state S0 in
\* the snapshot read during that arrival.
C5_PowerStateFeasibility ==
    (Arrival /\ lastEvt.placed)
        => lastEvt.pre[taskInfo[lastEvt.task + 1].machine].s_state = "S0"

\* C6: whenever some machine satisfies the feasibility predicate for the
\* arriving task (and the simulator does not refuse a VM), the task is
\* committed to a VM.
C6_PlacementCompleteness ==
    (/\ Arrival
     /\ \E m \in DOMAIN lastEvt.pre : DesignFeasible(lastEvt.pre[m], lastEvt.req)
     /\ ~(lastEvt.created /\ lastEvt.newvm = InvalidVM))
        => lastEvt.placed

\* C7: in the on-demand variants an arrival creates no VM on a host that
\* already holds a pooled VM of the task's type and architecture, and a task
\* placed on the host of an earlier task with identical requirements is
\* committed to that task's VM without the pool growing.
C7_VmReuse ==
    (Arrival /\ variant \in OnDemandVariants)
        => /\ lastEvt.created =>
                MatchingVMs(lastEvt.prePool, lastEvt.preVm, lastEvt.host,
                            lastEvt.req) = 0
           /\ lastEvt.placed =>
                \A t \in Committed :
                    (/\ t < lastEvt.task + 1
                     /\ taskInfo[t].req = lastEvt.req
                     /\ taskInfo[t].machine = taskInfo[lastEvt.task + 1].machine)
                        => (~lastEvt.created /\ lastEvt.addvm = taskInfo[t].vm)

\* What an arrival decides: the host, the VM, whether one is created
Decision(out) ==
    <<out.host, out.added, out.addvm, out.created, out.fault>>

\* C8: from the same snapshot, pool and requirements the arrival handler
\* chooses the same host and VM whatever the task's id.
C8_Determinism ==
    (phase = "run" /\ ~faulted) =>
        \A req \in TaskClasses, t1, t2 \in 0..MaxTasks :
            Decision(NewTask(variant, machines, machineInfo, vms, vmInfo,
                             active_machines, t1, req, Len(vmInfo)))
          = Decision(NewTask(variant, machines, machineInfo, vms, vmInfo,
                             active_machines, t2, req, Len(vmInfo)))

\* C9: when VM_Create returns the failure value, the failed identity is not
\* pooled, and neither VM_Attach nor VM_AddTask is issued.
C9_ProvisioningFailureAbsorbed ==
    (Arrival /\ lastEvt.created /\ lastEvt.newvm = InvalidVM)
        => (~lastEvt.pushed /\ ~lastEvt.attached /\ ~lastEvt.added)

\* C10: after Init the fleet view lists every machine id 0..total-1 once, in
\* increasing order; every machine that was not running has been asked to
\* run, and none has been asked to power off.
C10_InitCoversFleet ==
    /\ (phase # "boot" /\ ~faulted) => machines = Range0(Cardinality(MachineIds))
    /\ (lastEvt.kind = "Init" /\ ~faulted) =>
          /\ \A m \in DOMAIN lastEvt.pre :
                lastEvt.pre[m].s_state # "S0" => <<m, "S0">> \in lastEvt.setState
          /\ \A r \in lastEvt.setState : r[2] = "S0"

\* The pool entries that name a VM the simulator created
PooledVMs == { vms[i] : i \in { k \in 1..Len(vms) : ValidVM(vmInfo, vms[k]) } }

\* C11: every VM in the pool has the CPU architecture of the machine it is
\* attached to, the VMs that the least-loaded Init provisions included.
C11_VmArchMatchesHost ==
    ~faulted =>
        \A v \in PooledVMs :
            VMRec(vmInfo, v).machine_id \in MachineIds
                => VMRec(vmInfo, v).cpu = machineInfo[VMRec(vmInfo, v).machine_id].cpu

\* C12: every VM in the pool has received exactly one attach request, issued
\* by the event that created it; its host never changes afterwards, and no
\* handler issues a migration request.
C12_SingleAttachment ==
    /\ [](\A v \in PooledVMs :
              /\ VMRec(vmInfo, v).attaches = 1
              /\ VMRec(vmInfo, v).machine_id \in MachineIds)
    /\ [][/\ Len(vmInfo') >= Len(vmInfo)
          /\ \A i \in 1..Len(vmInfo) :
                /\ vmInfo'[i].machine_id = vmInfo[i].machine_id
                /\ vmInfo'[i].attaches = vmInfo[i].attaches
          /\ ~lastEvt'.migrate
          /\ ~migrating']_vars

\* C12 witness: an arrival has created and attached a VM next to an older
\* pooled VM, and a later event of another kind has been handled since.
C12_Witness ==
    /\ ~faulted
    /\ variant \in OnDemandVariants
    /\ Cardinality(PooledVMs) >= 2
    /\ lastEvt.kind \in {"TaskComplete", "PeriodicCheck", "MigrationDone"}

\* C13: one Shutdown event issues exactly one VM_Shutdown for every VM the
\* scheduler created, and none for any other identity.
C13_ShutdownExactlyOnce ==
    (lastEvt.kind = "Shutdown" /\ ~faulted) =>
        /\ \A i \in 1..Len(lastEvt.shutdowns) : ValidVM(vmInfo, lastEvt.shutdowns[i])
        /\ \A v \in 0..(Len(vmInfo) - 1) :
              Cardinality({ i \in 1..Len(lastEvt.shutdowns) :
                              lastEvt.shutdowns[i] = v }) = 1

\* C14: a task left unallocated at its arrival is never committed to a VM by
\* a later event, and no task is the subject of more than one VM_AddTask.
C14_NoAutomaticRetry ==
    /\ [](\A t \in 1..Len(taskInfo) : taskInfo[t].adds <= 1)
    /\ [][/\ Len(taskInfo') >= Len(taskInfo)
          /\ \A t \in 1..Len(taskInfo) :
                /\ taskInfo'[t].adds = taskInfo[t].adds
                /\ taskInfo[t].status = "unallocated"
                      => /\ taskInfo'[t].status = "unallocated"
                         /\ taskInfo'[t].vm = taskInfo[t].vm
                         /\ taskInfo'[t].machine = taskInfo[t].machine]_vars

\* C14 witness: a task is still unallocated at a periodic check although a
\* machine has become feasible for it since its arrival.
C14_Witness ==
    /\ ~faulted
    /\ lastEvt.kind = "PeriodicCheck"
    /\ \E t \in 1..Len(taskInfo) :
          /\ taskInfo[t].status = "unallocated"
          /\ taskInfo[t].adds = 0
          /\ \E m \in MachineIds : DesignFeasible(machineInfo[m], taskInfo[t].req)

\* C15: no handler runs into an out-of-range access to the pool or the fleet
\* view, or into a division or modulo by zero, whatever the size of the fleet.
C15_NoFatalFailure == ~faulted /\ phase # "crashed"

\* C16: every machine's active_tasks stays within its number of cores.
C16_ActiveTaskBound ==
    ~faulted =>
        \A m \in MachineIds :
            machineInfo[m].active_tasks <= machineInfo[m].num_cpus

\* The handler of the event recorded in e issued no call to the simulator
NoHostCall(e) ==
    /\ ~e.created /\ ~e.attached /\ ~e.pushed /\ ~e.added
    /\ e.setState = {} /\ e.shutdowns = <<>>
    /\ ~e.setPriority /\ ~e.migrate /\ ~e.fault

\* C17: a MigrationDone event, for a VM id the pool knows or not, leaves the
\* pool, the fleet view and the simulator's records unchanged and the
\* migrating flag false; a second delivery changes nothing further.
C17_MigrationDoneIdempotent ==
    [][lastEvt'.kind = "MigrationDone" =>
          /\ UNCHANGED <<vms, machines, active_machines, machineInfo,
                         pendingState, vmInfo, taskInfo, phase, faulted>>
          /\ migrating' = FALSE
          /\ NoHostCall(lastEvt')
          /\ lastEvt.kind = "MigrationDone"
                => lastEvt' = [lastEvt EXCEPT !.arg = lastEvt'.arg]]_vars

\* C17 witness: MigrationDone has been delivered for an id that names no VM,
\* while the pool is not empty.
C17_Witness ==
    /\ ~faulted
    /\ lastEvt.kind = "MigrationDone"
    /\ lastEvt.arg = Len(vmInfo)
    /\ vms # <<>>
    /\ ~migrating

\* C18: task completion, periodic check, memory warning and state-change
\* completion leave the pool and the fleet view unchanged and issue no call
\* that creates, attaches, commits, changes a power state or shuts down.
C18_NoOpEvents ==
    [][lastEvt'.kind \in {"TaskComplete", "PeriodicCheck", "MemoryWarning",
                          "StateChangeComplete"} =>
          /\ UNCHANGED <<vms, machines, active_machines, migrating, phase, faulted>>
          /\ NoHostCall(lastEvt')
          /\ Len(vmInfo') = Len(vmInfo)
          /\ \A i \in 1..Len(vmInfo) :
                vmInfo'[i] = [vmInfo[i] EXCEPT !.active_tasks = vmInfo'[i].active_tasks]
          /\ \A m \in MachineIds : pendingState'[m] \in {pendingState[m], "none"}
          /\ Len(taskInfo') = Len(taskInfo)
          /\ \A t \in 1..Len(taskInfo) :
                /\ taskInfo'[t].adds = taskInfo[t].adds
                /\ taskInfo'[t].vm = taskInfo[t].vm
                /\ taskInfo'[t].priority = taskInfo[t].priority]_vars

\* C18 witness: a task has completed and left its machine without any task,
\* with a VM in the pool.
C18_Witness ==
    /\ ~faulted
    /\ lastEvt.kind = "TaskComplete"
    /\ vms # <<>>
    /\ taskInfo[lastEvt.task + 1].status = "done"
    /\ machineInfo[taskInfo[lastEvt.task + 1].machine].active_tasks = 0

\* C19: an SLAWarning leaves every task's VM and machine, the pool, the fleet
\* view and the simulator's records unchanged; at most the priority of the
\* task it names becomes HIGH_PRIORITY.
C19_SLAWarningNeverMoves ==
    [][lastEvt'.kind = "SLAWarning" =>
          /\ UNCHANGED <<vms, machines, active_machines, migrating, machineInfo,
                         pendingState, vmInfo, phase, faulted>>
          /\ NoHostCall([lastEvt' EXCEPT !.setPriority = FALSE])
          /\ Len(taskInfo') = Len(taskInfo)
          /\ \A t \in 1..Len(taskInfo) :
                \/ taskInfo'[t] = taskInfo[t]
                \/ /\ t = lastEvt'.task + 1
                   /\ taskInfo'[t] = [taskInfo[t] EXCEPT !.priority = "HIGH_PRIORITY"]]_vars

\* C19 witness: the least-loaded variant has raised the priority of a placed
\* task that did not arrive with the highest priority.
C19_Witness ==
    /\ ~faulted
    /\ lastEvt.kind = "SLAWarning"
    /\ lastEvt.setPriority
    /\ taskInfo[lastEvt.task + 1].status = "placed"
    /\ taskInfo[lastEvt.task + 1].req.sla # "SLA0"
    /\ taskInfo[lastEvt.task + 1].priority = "HIGH_PRIORITY"

\* The slack of the design: 1 - (active_tasks / core_count + (memory_used +
\* demand) / memory_capacity), the CPU term 0 without cores, + 0.05 for a
\* wanted GPU
DesignSlack(mi, req) == SlackOf(CpuUtilUncapped(mi), mi, req)

\* The machines of snapshot pre that the design calls feasible for req
FeasibleSet(pre, req) == { m \in DOMAIN pre : DesignFeasible(pre[m], req) }

\* C20: on an arrival with a non-empty feasible set (and no VM refused) the
\* best-slack policy commits the task to the feasible machine of maximum
\* slack, the one of lowest pool index among equals.
C20_BestSlackSelection ==
    (/\ Arrival
     /\ variant \in {"BestSlack", "RelaxedBestSlack"}
     /\ FeasibleSet(lastEvt.pre, lastEvt.req) # {}
     /\ ~(lastEvt.created /\ lastEvt.newvm = InvalidVM))
        => /\ lastEvt.placed
           /\ LET h == taskInfo[lastEvt.task + 1].machine
                  F == FeasibleSet(lastEvt.pre, lastEvt.req)
                  S(m) == DesignSlack(lastEvt.pre[m], lastEvt.req)
              IN  /\ h \in F
                  /\ \A m \in F :
                        /\ ~FracGT(S(m), S(h))
                        /\ (~FracGT(S(h), S(m)) => h <= m)

\* C21: on an arrival with a non-empty feasible set the least-loaded policy
\* commits the task to the feasible machine with the fewest active tasks, the
\* one of lowest pool index among equals, through the VM vms[i] attached to
\* that machine machines[i].
C21_LeastLoadedSelection ==
    (/\ Arrival
     /\ variant = "LeastLoaded"
     /\ FeasibleSet(lastEvt.pre, lastEvt.req) # {})
        => /\ lastEvt.placed
           /\ LET h == taskInfo[lastEvt.task + 1].machine
                  F == FeasibleSet(lastEvt.pre, lastEvt.req)
              IN  /\ h \in F
                  /\ lastEvt.best >= 0
                  /\ lastEvt.addvm = vms[lastEvt.best + 1]
                  /\ h = machines[lastEvt.best + 1]
                  /\ \A m \in F :
                        /\ lastEvt.pre[h].active_tasks <= lastEvt.pre[m].active_tasks
                        /\ (lastEvt.pre[h].active_tasks = lastEvt.pre[m].active_tasks
                               => h <= m)

\* Two snapshots of machines that differ in nothing but the GPU
Twins(a, b) == a.gpus # b.gpus /\ [a EXCEPT !.gpus = b.gpus] = b

\* C23: under the best-slack policy, for a task that requires a GPU and two
\* candidate machines identical in cores, memory, memory used and active
\* tasks of which one has a GPU, the machine with the GPU is chosen whichever
\* index it has (never its twin; the GPU machine itself when the two are the
\* whole fleet).
C23_GpuBonusDecidesTies ==
    (lastEvt.kind = "NewTask" /\ variant = "BestSlack" /\ lastEvt.req.gpu)
        => \A g, n \in DOMAIN lastEvt.pre :
              (/\ lastEvt.pre[g].gpus
               /\ Twins(lastEvt.pre[g], lastEvt.pre[n])
               /\ FeasibleBestSlack(lastEvt.pre[g], lastEvt.req))
                  => /\ lastEvt.host # n
                     /\ Cardinality(DOMAIN lastEvt.pre) = 2 => lastEvt.host = g

\* C23 witness: the GPU machine is the second of two twins and takes the task.
C23_Witness ==
    /\ lastEvt.kind = "NewTask" /\ variant = "BestSlack" /\ lastEvt.req.gpu
    /\ DOMAIN lastEvt.pre = {0, 1}
    /\ lastEvt.pre[1].gpus
    /\ Twins(lastEvt.pre[1], lastEvt.pre[0])
    /\ FeasibleBestSlack(lastEvt.pre[1], lastEvt.req)
    /\ lastEvt.placed
    /\ taskInfo[lastEvt.task + 1].machine = 1

\* The mapping of the design: highest class to highest priority, second class
\* to mid priority, every other class to lowest priority
DesignPriority(sla) ==
    IF sla = "SLA0" THEN "HIGH_PRIORITY"
    ELSE IF sla = "SLA1" THEN "MID_PRIORITY"
    ELSE "LOW_PRIORITY"

\* C24: every VM_AddTask passes the priority the mapping gives for the task's
\* class, in all four variants, on the normal and on the fallback path.
C24_PriorityMapping ==
    (lastEvt.kind = "NewTask" /\ lastEvt.added)
        => /\ lastEvt.priority = DesignPriority(lastEvt.req.sla)
           /\ taskInfo[lastEvt.task + 1].priority = DesignPriority(lastEvt.req.sla)

\* C24 witness: a task of the lowest class committed on the fallback path.
C24_Witness ==
    /\ ~faulted
    /\ lastEvt.kind = "NewTask"
    /\ lastEvt.fallback /\ lastEvt.placed
    /\ lastEvt.req.sla = "SLA3"
    /\ lastEvt.priority = "LOW_PRIORITY"

\* The (host machine, declared type, CPU architecture) triple of a created VM
Triple(v) ==
    <<VMRec(vmInfo, v).machine_id, VMRec(vmInfo, v).vm_type, VMRec(vmInfo, v).cpu>>

\* C25: in the on-demand variants the pool never holds an identity twice, nor
\* two VMs of the same host, type and architecture, also when the relaxed
\* variant places a task on a host of another architecture.
C25_PoolUniqueness ==
    (variant \in OnDemandVariants /\ ~faulted)
        => /\ \A i, j \in 1..Len(vms) : i # j => vms[i] # vms[j]
           /\ \A v, w \in PooledVMs : v # w => Triple(v) # Triple(w)

\* C26: in the least-loaded variant, after Init the pool and the fleet view
\* both have min(16, total) entries, vms[i] is attached to machines[i], no
\* arrival creates a VM, and every index used on vms is within its bounds.
C26_EagerPoolShape ==
    (variant = "LeastLoaded" /\ phase # "boot")
        => /\ Len(vms) = Min(DefaultActiveMachines, Cardinality(MachineIds))
           /\ Len(machines) = Len(vms)
           /\ \A i \in 1..Len(vms) :
                 /\ ValidVM(vmInfo, vms[i])
                 /\ VMRec(vmInfo, vms[i]).machine_id = machines[i]
           /\ Len(vmInfo) = Len(vms)
           /\ lastEvt.kind = "NewTask"
                 => (~lastEvt.created /\ ~lastEvt.pushed /\ ~lastEvt.fault)

\* The branch of the consolidation-efficiency NewTask that logs "Skipping
\* incompatible CPU": a machine was selected, and the handler returned
\* before the reuse loop
SkippedIncompatible(e) == e.best >= 0 /\ ~e.created /\ ~e.added

\* C27: the consolidation-efficiency variant never takes the branch that
\* logs "Skipping incompatible CPU" after its selection.
C27_RecheckUnreachable ==
    (lastEvt.kind = "NewTask" /\ variant = "ConsolidationEfficiency")
        => ~SkippedIncompatible(lastEvt)

\* C27 witness: a machine was selected and the task placed while a running
\* machine of another architecture had room for it.
C27_Witness ==
    /\ lastEvt.kind = "NewTask" /\ variant = "ConsolidationEfficiency"
    /\ lastEvt.best >= 0
    /\ lastEvt.placed
    /\ \E m \in DOMAIN lastEvt.pre :
          /\ lastEvt.pre[m].cpu # lastEvt.req.cpu
          /\ FeasibleRelaxed(lastEvt.pre[m], lastEvt.req)

\* The efficiency of the design: 1 - (0.5 * active_tasks / core_count + 0.5 *
\* (memory_used + demand) / memory_capacity), the CPU term 0 without cores,
\* one bonus of 0.1 when bonus = 1, one more for a wanted GPU
DesignEfficiency(mi, req, bonus) ==
    LET u == CpuUtilUncapped(mi)
    IN  Frac(20 * u.d * mi.memory_size
               - 10 * u.n * mi.memory_size
               - 10 * (mi.memory_used + req.mem) * u.d
               + 2 * u.d * mi.memory_size
                   * (bonus + (IF req.gpu /\ mi.gpus THEN 1 ELSE 0)),
             20 * u.d * mi.memory_size)

\* C22: on an arrival with a non-empty feasible set (and no VM refused) the
\* consolidation-efficiency policy commits the task to the feasible machine of
\* maximum efficiency, with one bonus for a machine that holds a matching VM
\* and one for a wanted GPU, the lowest pool index among equals.
C22_EfficiencySelection ==
    (/\ Arrival
     /\ variant = "ConsolidationEfficiency"
     /\ FeasibleSet(lastEvt.pre, lastEvt.req) # {}
     /\ ~(lastEvt.created /\ lastEvt.newvm = InvalidVM))
        => /\ lastEvt.placed
           /\ LET h == taskInfo[lastEvt.task + 1].machine
                  F == FeasibleSet(lastEvt.pre, lastEvt.req)
                  E(m) == DesignEfficiency(lastEvt.pre[m], lastEvt.req,
                              IF MatchingVMs(lastEvt.prePool, lastEvt.preVm, m,
                                             lastEvt.req) > 0
                              THEN 1 ELSE 0)
              IN  /\ h \in F
                  /\ \A m \in F :
                        /\ ~FracGT(E(m), E(h))
                        /\ (~FracGT(E(h), E(m)) => h <= m)

====
